---- MODULE Spec2Model ----
(***************************************************************************)
(* Model of opl.investigator.check (boundary strategies and the check()    *)
(* orchestrator) and of opl.pass_or_fail.main.                             *)
(*                                                                         *)
(* Numbers.  The samples and candidate values are integers.  The           *)
(* statistics the code computes from them are IEEE-754 doubles, and the    *)
(* model computes the same doubles: each operation is carried out exactly  *)
(* and then rounded to the nearest double, and a double is kept as the     *)
(* exact value of its expression together with its rounding error, in      *)
(* small integers.  Only a standard deviation that is irrational is kept   *)
(* symbolic, as a square root; a bound made of one is never as close to an *)
(* integer as a rounding error, so its comparisons are decided exactly.    *)
(* A trim fraction is carried in hundredths: trim = 7 stands for 0.07.     *)
(***************************************************************************)
EXTENDS Integers, Sequences, FiniteSets, TLC

VARIABLES data, value, op, ret,
          args, historySource, currentSource, out, mainRet

vars == <<data, value, op, ret, args, historySource, currentSource, out, mainRet>>

checkVars == <<data, value, op, ret>>
mainVars == <<args, historySource, currentSource, out, mainRet>>

-----------------------------------------------------------------------------
(* Bounds of the model *)

\* longest historical sample
MaxLen == 15

\* longest historical sample that is also given unsorted (descending)
MaxUnsorted == 6

\* the values a historical sample is drawn from, ascending
Values == <<-3, 0, 1>>

\* candidate values
Candidates == {-3, -1, 0, 1, 2}

\* longest historical sample of a variable pass_or_fail.main is run on
MainLen == 2

\* the variables ("sets") of a pass_or_fail configuration
Vars == {"rps", "latency"}

\* Python's None, and a present value v
None == <<>>
Some(v) == <<v>>

-----------------------------------------------------------------------------
(* Arithmetic.  Python's float is the IEEE-754 double.                      *)

\* The element of a one-element set.  The({F(x) : x \in {v}}) is F of the
\* value of v: v is evaluated once, as Python evaluates an argument or the
\* right-hand side of an assignment
The(S) == CHOOSE x \in S : TRUE

Abs(x) == IF x < 0 THEN -x ELSE x

Sign(x) == IF x > 0 THEN 1 ELSE IF x < 0 THEN -1 ELSE 0

\* s[i] + ... + s[j], summed by halves
RECURSIVE SumFromTo(_, _, _)
SumFromTo(s, i, j) ==
    IF i > j THEN 0
    ELSE IF i = j THEN s[i]
    ELSE The({SumFromTo(s, i, h) + SumFromTo(s, h + 1, j) : h \in {(i + j) \div 2}})

\* sum(s)
Sum(s) == The({SumFromTo(v, 1, Len(v)) : v \in {s}})

SumSq(s) == Sum([i \in 1..Len(s) |-> s[i] * s[i]])

Range(s) == {s[i] : i \in 1..Len(s)}

Min(s) == The({CHOOSE x \in S : \A y \in S : x <= y : S \in {Range(s)}})

Max(s) == The({CHOOSE x \in S : \A y \in S : x >= y : S \in {Range(s)}})

Sorted(s) == SortSeq(s, LAMBDA a, b: a < b)

RECURSIVE Gcd(_, _)
Gcd(a, b) == IF b = 0 THEN a ELSE The({Gcd(b, r) : r \in {a % b}})

Lcm(a, b) == The({(a \div g) * b : g \in {Gcd(a, b)}})

Pow2(n) == 2 ^ n

\* 2^k modulo m, for 0 <= k < 90, in factors that fit a machine word
PowMod(k, m) ==
    IF k < 30 THEN Pow2(k) % m
    ELSE IF k < 60 THEN ((Pow2(30) % m) * (Pow2(k - 30) % m)) % m
    ELSE ((((Pow2(30) % m) * (Pow2(30) % m)) % m) * (Pow2(k - 60) % m)) % m

\* the largest r with r * r <= n
ISqrt(n) == The({CHOOSE r \in 0..v : r * r <= v /\ v < (r + 1) * (r + 1) : v \in {n}})

IsSquare(n) == The({r * r = n : r \in {ISqrt(n)}})

\* n/d divided through by g
RatOver(n, d, g) == [num |-> n \div g, den |-> d \div g]

\* a fraction num/den, den > 0, in lowest terms
Rat(n, d) ==
    The({The({RatOver(t[1], t[2], g) : g \in {Gcd(Abs(t[1]), t[2])}}) : t \in {<<n, d>>}})

RatEq(a, b) == The({t[1].num * t[2].den = t[2].num * t[1].den : t \in {<<a, b>>}})

\* bits of a double's significand after the leading one
Mantissa == 52

\* rounding errors are counted in units of 2^-ErrExp
ErrExp == 64

\* A double is a record [p, q, e] standing for (p + e * 2^-ErrExp) / q:
\* p/q is what the expression that produced it is worth in real arithmetic,
\* and e is the rounding error its operations have accumulated.
Dbl(p, q, e) ==
    The({[p |-> p \div g, q |-> q \div g, e |-> e \div g] : g \in {Gcd(Gcd(Abs(p), q), Abs(e))}})

\* float('nan'), what numpy gives for the mean of nothing
NaN == [p |-> 0, q |-> 0, e |-> 0]

\* float(v) of an int v
FInt(v) == [p |-> v, q |-> 1, e |-> 0]

\* the fraction a double's expression is worth in real arithmetic
Ideal(x) == The({Rat(v.p, v.q) : v \in {x}})

\* 2^b <= P/q
Pow2Leq(b, P, q) == IF b >= 0 THEN q * Pow2(b) <= P ELSE q <= P * Pow2(-b)

\* b with 2^b <= P/q < 2^(b+1), for P > 0; the model's doubles lie between
\* 2^(Mantissa-ErrExp) and 2^(ErrExp-Mantissa) in size
Binade(P, q) ==
    IF P >= q
    THEN CHOOSE b \in 0..(ErrExp - Mantissa) : ~Pow2Leq(b + 1, P, q)
    ELSE -(CHOOSE c \in 1..(ErrExp - Mantissa) : Pow2Leq(-c, P, q))

\* The binary exponent of the double nearest to a = (p + e * 2^-ErrExp) / q,
\* p # 0: a value just below a power of two belongs to the binade below
Exponent(a) ==
    The({IF Sign(a.p) * a.e < 0 /\ Pow2Leq(b0, Abs(a.p), a.q) /\ Pow2Leq(-b0, a.q, Abs(a.p))
         THEN b0 - 1 ELSE b0 : b0 \in {Binade(Abs(a.p), a.q)}})

\* a rounded to the multiple of 2^-k which is g + u multiples above the one
\* below |p|/q, where |p|/q lies r/q of a multiple above that one
RoundTo(a, k, r, gu) ==
    The({Dbl(a.p, a.q, e2) : e2 \in {Sign(a.p) * (gu * a.q - r) * Pow2(ErrExp - k)}})

\* whether a value t2/D of a multiple above a multiple of 2^-k rounds up: ties
\* go to the even multiple unless tb, the sign of what the value has beyond
\* its error term, breaks them
RoundsUp(t2, D, tb, odd) ==
    IF 2 * t2 > D THEN 1
    ELSE IF 2 * t2 < D THEN 0
    ELSE IF tb > 0 THEN 1
    ELSE IF tb < 0 THEN 0
    ELSE odd

\* a rounded to the nearest multiple of 2^-k: r2 is |p| * 2^k modulo 2q, which
\* gives the place of |p|/q between two multiples (r2 % q) and whether the one
\* below is odd (r2 >= q); t and D are the place of a itself in units of
\* 2^-ErrExp / q, and g the multiples the error carries it over
RoundAt(a, k, r2) ==
    The({The({RoundTo(a, k, r2 % a.q,
                      g + RoundsUp(c.t - g * c.D, c.D, a.tb * Sign(a.p),
                                   ((IF r2 >= a.q THEN 1 ELSE 0) + g + 2) % 2))
              : g \in {IF c.t >= 0 THEN c.t \div c.D ELSE -((c.D - 1 - c.t) \div c.D)}})
         : c \in {[t |-> (r2 % a.q) * Pow2(ErrExp - k) + Sign(a.p) * a.e,
                   D |-> a.q * Pow2(ErrExp - k)]}})

\* a rounded in the binade of exponent b, whose doubles are the multiples of
\* 2^(b - Mantissa)
RoundIn(a, b) ==
    The({RoundAt(a, Mantissa - b, r2)
         : r2 \in {((Abs(a.p) % (2 * a.q)) * PowMod(Mantissa - b, 2 * a.q)) % (2 * a.q)}})

\* a value with p = 0 is a difference of neighbouring doubles and is a double
RoundOf(a) ==
    IF a.p = 0 THEN Dbl(0, a.q, a.e)
    ELSE The({RoundIn(a, b) : b \in {Exponent(a)}})

\* The double nearest to (p + e * 2^-ErrExp) / q, ties to the even
\* significand; tb is the sign of what the value has beyond e (zero when e is
\* exact)
Round(p, q, e, tb) == The({RoundOf(a) : a \in {[p |-> p, q |-> q, e |-> e, tb |-> tb]}})

\* n / d of two ints
FromFrac(n, d) == Round(n, d, 0, 0)

\* x + y over the common denominator L, before it is rounded
PlusOver(x, y, L) ==
    [p |-> x.p * (L \div x.q) + y.p * (L \div y.q),
     q |-> L,
     e |-> x.e * (L \div x.q) + y.e * (L \div y.q)]

\* the sum of two doubles before it is rounded
Plus(x, y) ==
    The({The({PlusOver(t[1], t[2], L) : L \in {Lcm(t[1].q, t[2].q)}}) : t \in {<<x, y>>}})

FNeg(x) == The({[p |-> -v.p, q |-> v.q, e |-> -v.e] : v \in {x}})

FSign(x) == The({IF v.p # 0 THEN Sign(v.p) ELSE Sign(v.e) : v \in {x}})

\* abs(x)
FAbs(x) == The({IF FSign(v) >= 0 THEN v ELSE FNeg(v) : v \in {x}})

\* x + y and x - y
FAdd(x, y) == The({Round(s.p, s.q, s.e, 0) : s \in {Plus(x, y)}})
FSub(x, y) == FAdd(x, FNeg(y))

\* x * b for an int b
FMulInt(x, b) == The({Round(v.p * b, v.q, v.e * b, 0) : v \in {x}})

\* x * y; the product of the two rounding errors only breaks a tie
FMul(x, y) ==
    The({Round(t[1].p * t[2].p, t[1].q * t[2].q, t[1].p * t[2].e + t[2].p * t[1].e,
               Sign(t[1].e) * Sign(t[2].e))
         : t \in {<<x, y>>}})

\* x / 2
FHalf(x) == The({Dbl(v.p, v.q * 2, v.e) : v \in {x}})

\* x >= 0 rounded down to an int; the rounding error decides only when the
\* expression is worth an int
FFloor(x) == IF x.p % x.q = 0 /\ x.e < 0 THEN x.p \div x.q - 1 ELSE x.p \div x.q

\* int(x): x truncated towards zero
FTrunc(x) == The({IF FSign(v) >= 0 THEN FFloor(v) ELSE -FFloor(FNeg(v)) : v \in {x}})

\* x <= y
FLeq(x, y) == The({s.p < 0 \/ (s.p = 0 /\ s.e <= 0) : s \in {Plus(x, FNeg(y))}})

\* the least common denominator of xs[i], ..., xs[j], by halves
RECURSIVE DenLcm(_, _, _)
DenLcm(xs, i, j) ==
    IF i > j THEN 1
    ELSE IF i = j THEN xs[i].q
    ELSE The({Lcm(DenLcm(xs, i, h), DenLcm(xs, h + 1, j)) : h \in {(i + j) \div 2}})

\* the exact sum of the doubles xs over their common denominator L
ExactSumOver(xs, L) ==
    The({Dbl(t[1], L, t[2])
         : t \in {<<Sum([i \in 1..Len(xs) |-> xs[i].p * (L \div xs[i].q)]),
                    Sum([i \in 1..Len(xs) |-> xs[i].e * (L \div xs[i].q)])>>}})

\* the exact sum of a sequence of doubles
ExactSum(xs) ==
    The({The({ExactSumOver(v, L) : L \in {DenLcm(v, 1, Len(v))}}) : v \in {xs}})

\* statistics.mean of a non-empty sequence of doubles: the exact sum, divided
\* and rounded once
FMean(xs) ==
    The({The({Round(s.p, s.q * Len(v), s.e, 0) : s \in {ExactSum(v)}}) : v \in {xs}})

\* A bound is a record [x, k, rad] standing for  x + k * sqrt(rad)  with x a
\* double, k an int and rad a fraction.  k # 0 only for a standard deviation
\* that is irrational; such a bound never equals an int, and is compared
\* exactly.
Real(x, k, rad) == [x |-> x, k |-> k, rad |-> rad]

\*  d/e <= k * sqrt(q)   (e > 0)
LeqRoot(d, e, k, q) ==
    IF k = 0 \/ q.num = 0 THEN d <= 0
    ELSE IF k > 0 THEN d <= 0 \/ d * d * q.den <= k * k * q.num * e * e
    ELSE d <= 0 /\ d * d * q.den >= k * k * q.num * e * e

\*  k * sqrt(q) <= d/e   (e > 0)
RootLeq(k, q, d, e) ==
    IF k = 0 \/ q.num = 0 THEN d >= 0
    ELSE IF k < 0 THEN d >= 0 \/ d * d * q.den <= k * k * q.num * e * e
    ELSE d >= 0 /\ d * d * q.den >= k * k * q.num * e * e

\*  v <= b  and  b <= v  for an int v and a bound b
IntLeqReal(v, b) ==
    The({IF c.k = 0 THEN FLeq(FInt(v), c.x)
         ELSE LeqRoot(v * c.x.q - c.x.p, c.x.q, c.k, c.rad) : c \in {b}})

RealLeqInt(b, v) ==
    The({IF c.k = 0 THEN FLeq(c.x, FInt(v))
         ELSE RootLeq(c.k, c.rad, v * c.x.q - c.x.p, c.x.q) : c \in {b}})

\*  a <= b for two bounds over the same radicand (bounds of one sample)
RealLeq(a, b) ==
    The({IF t[1].k = t[2].k THEN FLeq(t[1].x, t[2].x)
         ELSE LeqRoot(t[1].x.p * t[2].x.q - t[2].x.p * t[1].x.q,
                      t[1].x.q * t[2].x.q, t[2].k - t[1].k,
                      IF t[1].k # 0 THEN t[1].rad ELSE t[2].rad)
         : t \in {<<a, b>>}})

-----------------------------------------------------------------------------
(* Outcomes of a call: a normal return or a raised exception.  `computed`  *)
(* lists the statistics the call had computed when it raised.              *)

Return(verdict, info) == [kind |-> "return", info |-> info, verdict |-> verdict]
Raise(exc, computed) == [kind |-> "raise", exc |-> exc, computed |-> computed]
NoCall == [kind |-> "none"]

\* an OrderedDict is a sequence of <<key, value>> pairs
Keys(d) == [i \in 1..Len(d) |-> d[i][1]]
Get(d, key) == LET i == CHOOSE j \in 1..Len(d) : d[j][1] = key IN d[i][2]
Has(d, key) == \E j \in 1..Len(d) : d[j][1] = key

\* Within with exclusive ends: lower_boundary < value < upper_boundary
Within_exclusive(lower_boundary, v, upper_boundary) ==
    ~RealLeqInt(upper_boundary, v) /\ ~IntLeqReal(v, lower_boundary)

\* lower_boundary <= value <= upper_boundary (a Python chained comparison)
Within(lower_boundary, v, upper_boundary) ==
    IntLeqReal(v, upper_boundary) /\ RealLeqInt(lower_boundary, v)

-----------------------------------------------------------------------------
(* scipy.stats and statistics *)

\* scipy's int(proportiontocut * nobs): the fraction trim/100 as a double,
\* times the length, rounded, and truncated to an int
lowercut(nobs, trim) == FTrunc(FMulInt(FromFrac(trim, 100), nobs))

\* statistics.mean: raises StatisticsError on no data
mean(s) == FromFrac(Sum(s), Len(s))

\* scipy.stats.trimboth: "ok" with the slice, or "ValueError"
trimboth(a, trim) ==
    IF Len(a) = 0 THEN [ok |-> TRUE, a |-> a]
    ELSE The({LET uc == Len(a) - lc
              IN  IF lc >= uc THEN [ok |-> FALSE, a |-> <<>>]
                  ELSE [ok |-> TRUE, a |-> SubSeq(Sorted(a), lc + 1, uc)]
              : lc \in {lowercut(Len(a), trim)}})

\* scipy.stats.trim_mean: "ok" with the mean (nan for no data), or "ValueError"
trim_mean(a, trim) ==
    IF Len(a) = 0 THEN [ok |-> TRUE, m |-> NaN]
    ELSE The({LET uc == Len(a) - lc
              IN  IF lc > uc THEN [ok |-> FALSE, m |-> NaN]
                  ELSE IF lc = uc THEN [ok |-> TRUE, m |-> NaN]
                  ELSE [ok |-> TRUE, m |-> mean(SubSeq(Sorted(a), lc + 1, uc))]
              : lc \in {lowercut(Len(a), trim)}})

\* statistics.variance of m >= 2 points, exact: (m*Q - S*S) / (m*(m-1))
variance(s) ==
    LET m == Len(s) IN Rat(m * SumSq(s) - Sum(s) * Sum(s), m * (m - 1))

\* statistics.stdev: the root of the exact variance, rounded once
stdev(s) ==
    The({IF IsSquare(var.num) /\ IsSquare(var.den)
         THEN Real(FromFrac(ISqrt(var.num), ISqrt(var.den)), 0, Rat(0, 1))
         ELSE Real(FInt(0), 1, var) : var \in {variance(s)}})

\* stdev * boost, mean - that and mean + that
RealMulInt(sd, boost) == The({Real(FMulInt(v.x, boost), v.k * boost, v.rad) : v \in {sd}})
RealSub(m, b) == The({Real(FSub(m, v.x), -v.k, v.rad) : v \in {b}})
RealAdd(m, b) == The({Real(FAdd(m, v.x), v.k, v.rad) : v \in {b}})

-----------------------------------------------------------------------------
(* The strategy families.  `caller` is inspect.stack()[1][3], the name of  *)
(* the function that called the family.                                    *)

\* _check_by_stdev with the signs of the two bounds exchanged
_check_by_stdev_swapped(d, v, trim, boost, caller) ==
    The({IF ~tm.ok THEN Raise("ValueError", <<>>)
         ELSE IF ~tb.ok THEN Raise("ValueError", <<"mean">>)
         ELSE IF Len(tb.a) < 2 THEN Raise("StatisticsError", <<"mean">>)
         ELSE
           The({The({
              LET info == << <<"method", caller>>,
                             <<"value", v>>,
                             <<"trim", Rat(trim, 100)>>,
                             <<"boost", boost>>,
                             <<"data len", Len(d)>>,
                             <<"data mean", tm.m>>,
                             <<"data stdev", sd>>,
                             <<"lower_boundary", lower_boundary>>,
                             <<"upper_boundary", upper_boundary>> >>
              IN  IF v = None
                  THEN Raise("TypeError", <<"mean", "stdev", "lower_boundary", "upper_boundary">>)
                  ELSE Return(Within(lower_boundary, v[1], upper_boundary), info)
              : lower_boundary \in {RealAdd(tm.m, RealMulInt(sd, boost))},
                upper_boundary \in {RealSub(tm.m, RealMulInt(sd, boost))}})
              : sd \in {stdev(tb.a)}})
         : tm \in {trim_mean(d, trim)}, tb \in {trimboth(d, trim)}})

_check_by_stdev(d, v, trim, boost, caller) ==
    The({IF ~tm.ok THEN Raise("ValueError", <<>>)
         ELSE IF ~tb.ok THEN Raise("ValueError", <<"mean">>)
         ELSE IF Len(tb.a) < 2 THEN Raise("StatisticsError", <<"mean">>)
         ELSE
           The({The({
              LET info == << <<"method", caller>>,
                             <<"value", v>>,
                             <<"trim", Rat(trim, 100)>>,
                             <<"boost", boost>>,
                             <<"data len", Len(d)>>,
                             <<"data mean", tm.m>>,
                             <<"data stdev", sd>>,
                             <<"lower_boundary", lower_boundary>>,
                             <<"upper_boundary", upper_boundary>> >>
              IN  IF v = None
                  THEN Raise("TypeError", <<"mean", "stdev", "lower_boundary", "upper_boundary">>)
                  ELSE Return(Within(lower_boundary, v[1], upper_boundary), info)
              : lower_boundary \in {RealSub(tm.m, RealMulInt(sd, boost))},
                upper_boundary \in {RealAdd(tm.m, RealMulInt(sd, boost))}})
              : sd \in {stdev(tb.a)}})
         : tm \in {trim_mean(d, trim)}, tb \in {trimboth(d, trim)}})

check_by_stdev(d, v) == _check_by_stdev(d, v, 0, 1, "check_by_stdev")

check_by_stdev_2(d, v) == _check_by_stdev(d, v, 0, 2, "check_by_stdev_2")

check_by_trim_stdev(d, v) == _check_by_stdev(d, v, 10, 1, "check_by_trim_stdev")

check_by_trim_stdev_2(d, v) == _check_by_stdev(d, v, 10, 2, "check_by_trim_stdev_2")

_check_by_error(d, v, boost, caller) ==
    IF d = <<>> THEN Raise("StatisticsError", <<>>)
    ELSE
      The({The({The({
          LET info == << <<"method", caller>>,
                         <<"value", v>>,
                         <<"boost", boost>>,
                         <<"data len", Len(d)>>,
                         <<"data mean", m>>,
                         <<"data error", error>>,
                         <<"lower_boundary", lower_boundary>>,
                         <<"upper_boundary", upper_boundary>> >>
          IN  IF v = None
              THEN Raise("TypeError", <<"mean", "error", "lower_boundary", "upper_boundary">>)
              ELSE Return(Within(lower_boundary, v[1], upper_boundary), info)
          : lower_boundary \in {Real(FSub(m, FMulInt(error, boost)), 0, Rat(0, 1))},
            upper_boundary \in {Real(FAdd(m, FMulInt(error, boost)), 0, Rat(0, 1))}})
          : error \in {FMean([i \in 1..Len(d) |-> FAbs(FSub(FInt(d[i]), m))])}})
          : m \in {mean(d)}})

check_by_error_1(d, v) == _check_by_error(d, v, 1, "check_by_error_1")

check_by_error_2(d, v) == _check_by_error(d, v, 2, "check_by_error_2")

check_by_error_3(d, v) == _check_by_error(d, v, 3, "check_by_error_3")

\* _check_by_perc rejecting a non-positive percentage on entry
_check_by_perc_validating(d, v, perc, caller) ==
    IF perc <= 0 THEN Raise("ValueError", <<>>)
    ELSE IF d = <<>> THEN Raise("StatisticsError", <<>>)
    ELSE
      The({The({
          LET info == << <<"method", caller>>,
                         <<"value", v>>,
                         <<"perc", perc>>,
                         <<"data len", Len(d)>>,
                         <<"data mean", m>>,
                         <<"lower_boundary", lower_boundary>>,
                         <<"upper_boundary", upper_boundary>> >>
          IN  IF v = None
              THEN Raise("TypeError", <<"mean", "lower_boundary", "upper_boundary">>)
              ELSE Return(Within(lower_boundary, v[1], upper_boundary), info)
          : lower_boundary \in {Real(FSub(m, FMul(m, FHalf(FromFrac(perc, 100)))), 0, Rat(0, 1))},
            upper_boundary \in {Real(FAdd(m, FMul(m, FHalf(FromFrac(perc, 100)))), 0, Rat(0, 1))}})
          : m \in {mean(d)}})

\* mean -/+ mean * (perc / 100 / 2)
_check_by_perc(d, v, perc, caller) ==
    IF d = <<>> THEN Raise("StatisticsError", <<>>)
    ELSE
      The({The({
          LET info == << <<"method", caller>>,
                         <<"value", v>>,
                         <<"perc", perc>>,
                         <<"data len", Len(d)>>,
                         <<"data mean", m>>,
                         <<"lower_boundary", lower_boundary>>,
                         <<"upper_boundary", upper_boundary>> >>
          IN  IF v = None
              THEN Raise("TypeError", <<"mean", "lower_boundary", "upper_boundary">>)
              ELSE Return(Within(lower_boundary, v[1], upper_boundary), info)
          : lower_boundary \in {Real(FSub(m, FMul(m, FHalf(FromFrac(perc, 100)))), 0, Rat(0, 1))},
            upper_boundary \in {Real(FAdd(m, FMul(m, FHalf(FromFrac(perc, 100)))), 0, Rat(0, 1))}})
          : m \in {mean(d)}})

check_by_perc_40(d, v) == _check_by_perc(d, v, 40, "check_by_perc_40")

check_by_perc_60(d, v) == _check_by_perc(d, v, 60, "check_by_perc_60")

\* the source passes perc=60 here too
check_by_perc_100(d, v) == _check_by_perc(d, v, 60, "check_by_perc_100")

\* _check_by_min_max centred on the mean of the trimmed sample
_check_by_min_max_trimmed_centre(d, v, trim, boost, caller) ==
    IF d = <<>> THEN Raise("StatisticsError", <<>>)
    ELSE
      The({IF ~tb.ok THEN Raise("ValueError", <<"mean">>)
           ELSE
             The({The({
                LET info == << <<"method", caller>>,
                               <<"value", v>>,
                               <<"trim", Rat(trim, 100)>>,
                               <<"boost", boost>>,
                               <<"data len", Len(d)>>,
                               <<"data mean", m>>,
                               <<"lower_boundary", lower_boundary>>,
                               <<"upper_boundary", upper_boundary>> >>
                IN  IF v = None
                    THEN Raise("TypeError", <<"mean", "lower_boundary", "upper_boundary">>)
                    ELSE Return(Within(lower_boundary, v[1], upper_boundary), info)
                : lower_boundary \in
                      {Real(FSub(m, FMulInt(FSub(m, FInt(Min(data_trimmed))), boost)), 0, Rat(0, 1))},
                  upper_boundary \in
                      {Real(FAdd(m, FMulInt(FSub(FInt(Max(data_trimmed)), m), boost)), 0, Rat(0, 1))}})
                : data_trimmed \in {tb.a}, m \in {mean(tb.a)}})
           : tb \in {trimboth(d, trim)}})

_check_by_min_max(d, v, trim, boost, caller) ==
    IF d = <<>> THEN Raise("StatisticsError", <<>>)
    ELSE
      The({IF ~tb.ok THEN Raise("ValueError", <<"mean">>)
           ELSE
             The({The({
                LET info == << <<"method", caller>>,
                               <<"value", v>>,
                               <<"trim", Rat(trim, 100)>>,
                               <<"boost", boost>>,
                               <<"data len", Len(d)>>,
                               <<"data mean", m>>,
                               <<"lower_boundary", lower_boundary>>,
                               <<"upper_boundary", upper_boundary>> >>
                IN  IF v = None
                    THEN Raise("TypeError", <<"mean", "lower_boundary", "upper_boundary">>)
                    ELSE Return(Within(lower_boundary, v[1], upper_boundary), info)
                : lower_boundary \in
                      {Real(FSub(m, FMulInt(FSub(m, FInt(Min(data_trimmed))), boost)), 0, Rat(0, 1))},
                  upper_boundary \in
                      {Real(FAdd(m, FMulInt(FSub(FInt(Max(data_trimmed)), m), boost)), 0, Rat(0, 1))}})
                : data_trimmed \in {tb.a}, m \in {mean(d)}})
           : tb \in {trimboth(d, trim)}})

check_by_min_max_7_1(d, v) == _check_by_min_max(d, v, 7, 1, "check_by_min_max_7_1")

check_by_min_max_7_2(d, v) == _check_by_min_max(d, v, 7, 2, "check_by_min_max_7_2")

\* the module's named strategies, and the call of one by name
Named == {"check_by_stdev", "check_by_stdev_2", "check_by_trim_stdev",
          "check_by_trim_stdev_2", "check_by_error_1", "check_by_error_2",
          "check_by_error_3", "check_by_perc_40", "check_by_perc_60",
          "check_by_perc_100", "check_by_min_max_7_1", "check_by_min_max_7_2"}

Apply(method, d, v) ==
    CASE method = "check_by_stdev" -> check_by_stdev(d, v)
      [] method = "check_by_stdev_2" -> check_by_stdev_2(d, v)
      [] method = "check_by_trim_stdev" -> check_by_trim_stdev(d, v)
      [] method = "check_by_trim_stdev_2" -> check_by_trim_stdev_2(d, v)
      [] method = "check_by_error_1" -> check_by_error_1(d, v)
      [] method = "check_by_error_2" -> check_by_error_2(d, v)
      [] method = "check_by_error_3" -> check_by_error_3(d, v)
      [] method = "check_by_perc_40" -> check_by_perc_40(d, v)
      [] method = "check_by_perc_60" -> check_by_perc_60(d, v)
      [] method = "check_by_perc_100" -> check_by_perc_100(d, v)
      [] method = "check_by_min_max_7_1" -> check_by_min_max_7_1(d, v)
      [] method = "check_by_min_max_7_2" -> check_by_min_max_7_2(d, v)

-----------------------------------------------------------------------------
(* check(data, value, description) *)

\* check() running the strategy pass_or_fail.main calls
methods_stdev == <<"check_by_stdev">>

\* the strategies check() runs
methods == <<"check_by_error_3">>

\* the loop of check() from its i-th method on; a raising method ends the call
RECURSIVE CheckLoop(_, _, _, _, _, _)
CheckLoop(i, d, v, description, results, info_all) ==
    IF i > Len(methods)
    THEN [kind |-> "return", results |-> results, info_all |-> info_all]
    ELSE
      The({IF r.kind = "raise" THEN r
           ELSE
             LET info_full == << <<"description", description>>,
                                 <<"result", IF r.verdict THEN "PASS" ELSE "FAIL">> >>
                              \o r.info
             IN  CheckLoop(i + 1, d, v, description,
                           Append(results, r.verdict), Append(info_all, info_full))
           : r \in {Apply(methods[i], d, v)}})

\* check() without its entry assertion
check_no_assert(d, v, description) == CheckLoop(1, d, v, description, <<>>, <<>>)

\* check(): `assert value is not None` comes first (the interpreter is run
\* without -O, as pass_or_fail and the tests run it, so the assert is executed)
check(d, v, description) ==
    IF v = None THEN Raise("AssertionError", <<>>)
    ELSE CheckLoop(1, d, v, description, <<>>, <<>>)

-----------------------------------------------------------------------------
(* The inputs: historical samples and candidate values *)

Rep(x, k) == [i \in 1..k |-> x]

Reverse(s) == [i \in 1..Len(s) |-> s[Len(s) + 1 - i]]

\* the sample holding c[j] copies of Values[j], ascending
RECURSIVE Asc(_, _)
Asc(c, j) == IF j > Len(Values) THEN <<>> ELSE Rep(Values[j], c[j]) \o Asc(c, j + 1)

\* every multiset over Values of at most n elements, in ascending order
AscUpTo(n) ==
    LET counts == {c \in [1..Len(Values) -> 0..n] : Sum(c) <= n}
    IN  {Asc(c, 1) : c \in counts}

\* the same in descending order
DescUpTo(n) == {Reverse(a) : a \in AscUpTo(n)}

Samples == AscUpTo(MaxLen) \cup DescUpTo(MaxUnsorted)

MainSamples == AscUpTo(MainLen) \cup DescUpTo(MainLen)

\* configurations a family is called with directly, valid and invalid
Trims == {0, 7, 10, 50, 60}
Boosts == {-1, 0, 1, 2}
Percs == {-20, 0, 20, 40}

MainIdle ==
    /\ args = [history_type |-> "csv", current_type |-> "status_data", sets |-> <<>>]
    /\ historySource = <<>>
    /\ currentSource = <<>>
    /\ out = <<>>
    /\ mainRet = NoCall

CheckIdle ==
    /\ data = <<>>
    /\ value = None
    /\ op = [fn |-> "none"]
    /\ ret = NoCall

-----------------------------------------------------------------------------
(* Spec: calls into opl.investigator.check *)

Init ==
    /\ data \in Samples
    /\ value \in {None} \cup {Some(v) : v \in Candidates}
    /\ op = [fn |-> "none"]
    /\ ret = NoCall
    /\ MainIdle

\* a named strategy is called on the sample and the value
CallNamed(method) ==
    /\ op.fn = "none"
    /\ op' = [fn |-> method]
    /\ ret' = Apply(method, data, value)
    /\ UNCHANGED <<data, value>>
    /\ UNCHANGED mainVars

CallStdev(trim, boost) ==
    /\ op.fn = "none"
    /\ op' = [fn |-> "_check_by_stdev", trim |-> trim, boost |-> boost]
    /\ ret' = _check_by_stdev(data, value, trim, boost, "caller")
    /\ UNCHANGED <<data, value>>
    /\ UNCHANGED mainVars

CallError(boost) ==
    /\ op.fn = "none"
    /\ op' = [fn |-> "_check_by_error", boost |-> boost]
    /\ ret' = _check_by_error(data, value, boost, "caller")
    /\ UNCHANGED <<data, value>>
    /\ UNCHANGED mainVars

CallPerc(perc) ==
    /\ op.fn = "none"
    /\ op' = [fn |-> "_check_by_perc", perc |-> perc]
    /\ ret' = _check_by_perc(data, value, perc, "caller")
    /\ UNCHANGED <<data, value>>
    /\ UNCHANGED mainVars

CallMinMax(trim, boost) ==
    /\ op.fn = "none"
    /\ op' = [fn |-> "_check_by_min_max", trim |-> trim, boost |-> boost]
    /\ ret' = _check_by_min_max(data, value, trim, boost, "caller")
    /\ UNCHANGED <<data, value>>
    /\ UNCHANGED mainVars

Check(description) ==
    /\ op.fn = "none"
    /\ op' = [fn |-> "check", description |-> description]
    /\ ret' = check(data, value, description)
    /\ UNCHANGED <<data, value>>
    /\ UNCHANGED mainVars

Next ==
    \/ \E method \in Named : CallNamed(method)
    \/ \E trim \in Trims, boost \in Boosts : CallStdev(trim, boost)
    \/ \E boost \in Boosts : CallError(boost)
    \/ \E perc \in Percs : CallPerc(perc)
    \/ \E trim \in Trims, boost \in Boosts : CallMinMax(trim, boost)
    \/ \E description \in {"N/A", "rps"} : Check(description)

Spec == Init /\ [][Next]_vars

-----------------------------------------------------------------------------
(* SpecMain: opl.pass_or_fail.main *)

\* opl.investigator.csv_loader.load(history_file, sets)
csv_loader_load(source, sets) == source

\* opl.investigator.elasticsearch_loader.load(server, index, query, sets)
elasticsearch_loader_load(source, sets) == source

\* opl.investigator.status_data_loader.load(current_file, sets)
status_data_loader_load(source, sets) == source

\* bool(x) of a Python tuple: true unless the tuple is empty
Truthy(tuple) == Len(tuple) > 0

\* the loop over args.sets from its i-th variable on
RECURSIVE MainLoop(_, _, _, _, _)
MainLoop(i, sets, history, current, printed) ==
    IF i > Len(sets) THEN [ret |-> [kind |-> "return"], out |-> printed]
    ELSE
      LET var == sets[i]
          r == check_by_stdev(history[var], current[var])
      IN  IF r.kind = "raise" THEN [ret |-> r, out |-> printed]
          ELSE
            LET result == <<r.verdict, r.info>>
                line == [var |-> var, text |-> IF Truthy(result) THEN "PASS" ELSE "FAIL"]
            IN  MainLoop(i + 1, sets, history, current, Append(printed, line))

\* `history` is bound by the csv branch, then the second `if` either rebinds
\* it from elasticsearch or, in its else branch, raises
main(a, hsource, csource) ==
    LET fromCsv == IF a.history_type = "csv"
                   THEN csv_loader_load(hsource, a.sets)
                   ELSE <<>>
    IN  IF a.history_type = "elasticsearch"
        THEN LET history == elasticsearch_loader_load(hsource, a.sets)
             IN  IF a.current_type = "status_data"
                 THEN MainLoop(1, a.sets, history,
                               status_data_loader_load(csource, a.sets), <<>>)
                 ELSE [ret |-> Raise("Not supported data source type for current data", <<>>),
                       out |-> <<>>]
        ELSE [ret |-> Raise("Not supported data source type for historical data", <<>>),
              out |-> <<>>]

InitMain ==
    /\ args \in [history_type : {"csv", "elasticsearch", "graphite"},
                 current_type : {"status_data", "csv"},
                 sets : {<<"rps">>, <<"rps", "latency">>, <<"latency", "rps">>}]
    /\ historySource \in [Vars -> MainSamples]
    /\ currentSource \in [Vars -> {Some(v) : v \in {-1, 1}}]
    /\ out = <<>>
    /\ mainRet = NoCall
    /\ CheckIdle

Main ==
    /\ mainRet = NoCall
    /\ LET m == main(args, historySource, currentSource)
       IN  /\ mainRet' = m.ret
           /\ out' = m.out
    /\ UNCHANGED <<args, historySource, currentSource>>
    /\ UNCHANGED checkVars

NextMain == Main

SpecMain == InitMain /\ [][NextMain]_vars

-----------------------------------------------------------------------------
(* Vocabulary of the properties *)

Families == {"_check_by_stdev", "_check_by_error", "_check_by_perc", "_check_by_min_max"}

StdevNamed == {"check_by_stdev", "check_by_stdev_2", "check_by_trim_stdev", "check_by_trim_stdev_2"}
ErrorNamed == {"check_by_error_1", "check_by_error_2", "check_by_error_3"}
PercNamed == {"check_by_perc_40", "check_by_perc_60", "check_by_perc_100"}
MinMaxNamed == {"check_by_min_max_7_1", "check_by_min_max_7_2"}

\* a strategy (named, or a family called directly) was called and returned
StrategyReturned == op.fn \in Named \cup Families /\ ret.kind = "return"

Lower(r) == Get(r.info, "lower_boundary")
Upper(r) == Get(r.info, "upper_boundary")

SetMin(S) == CHOOSE x \in S : \A y \in S : x <= y
SetMax(S) == CHOOSE x \in S : \A y \in S : x >= y

\* the sample has dispersion: at least two elements, not all equal
NonDegenerate(s) == Cardinality(Range(s)) >= 2

\* C1: whenever a strategy of any family returns, its verdict is true exactly
\* when lower_boundary <= value <= upper_boundary for the bounds in the record
\* it returned; a value equal to a bound passes.
C1_VerdictIffWithinRecordedBounds ==
    StrategyReturned =>
        /\ ret.verdict <=> (RealLeqInt(Lower(ret), value[1]) /\ IntLeqReal(value[1], Upper(ret)))
        /\ (RealLeqInt(Lower(ret), value[1]) /\ IntLeqReal(value[1], Lower(ret))
              /\ RealLeq(Lower(ret), Upper(ret))) => ret.verdict
        /\ (RealLeqInt(Upper(ret), value[1]) /\ IntLeqReal(value[1], Upper(ret))
              /\ RealLeq(Lower(ret), Upper(ret))) => ret.verdict

\* a value equal to the upper bound of a non-empty interval passed
C1_Witness ==
    /\ StrategyReturned
    /\ RealLeqInt(Upper(ret), value[1]) /\ IntLeqReal(value[1], Upper(ret))
    /\ ~RealLeq(Upper(ret), Lower(ret))
    /\ ret.verdict

\* C2 as stated: on every non-degenerate sample every named strategy that
\* completes has lower_boundary <= upper_boundary, negative means included.
C2_LowerLeqUpper_AsStated ==
    (op.fn \in Named /\ ret.kind = "return" /\ NonDegenerate(data)) =>
        RealLeq(Lower(ret), Upper(ret))

\* C2 amended: on every non-degenerate sample every named strategy that
\* completes has lower_boundary <= upper_boundary, except that a percentage
\* strategy has it exactly when the sample mean is not negative (for a negative
\* mean its bounds are inverted).
C2_LowerLeqUpper ==
    (op.fn \in Named /\ ret.kind = "return" /\ NonDegenerate(data)) =>
        IF op.fn \in PercNamed
        THEN RealLeq(Lower(ret), Upper(ret)) <=> Sum(data) >= 0
        ELSE RealLeq(Lower(ret), Upper(ret))

\* a percentage strategy returned inverted bounds for a sample of negative mean
C2_Witness ==
    /\ op.fn \in PercNamed /\ ret.kind = "return" /\ NonDegenerate(data)
    /\ Sum(data) < 0
    /\ ~RealLeq(Lower(ret), Upper(ret))

\* C3: check() called with value None fails its entry assertion: an
\* AssertionError, nothing computed, no verdict and no record.
C3_NoneValueIsContractViolation ==
    (op.fn = "check" /\ value = None) => ret = Raise("AssertionError", <<>>)

\* check() was called with None on a sample its strategy would have accepted
C3_Witness ==
    /\ op.fn = "check" /\ value = None /\ Len(data) >= 2
    /\ ret.kind = "raise"

\* some strategy of check() fails for lack of data on the sample
InsufficientData ==
    \E i \in 1..Len(methods) :
        LET r == Apply(methods[i], data, value)
        IN  r.kind = "raise" /\ r.exc = "StatisticsError"

\* C4: when a strategy of check() fails for insufficient data, check() still
\* returns one verdict and one record per strategy.
C4_FailureIsolated ==
    (op.fn = "check" /\ value # None /\ InsufficientData) =>
        /\ ret.kind = "return"
        /\ Len(ret.results) = Len(methods)
        /\ Len(ret.info_all) = Len(methods)

\* what check() does instead: the strategy's StatisticsError leaves check(),
\* which returns no verdict and no diagnostic record
FailurePropagates ==
    (op.fn = "check" /\ value # None /\ InsufficientData) =>
        ret = Raise("StatisticsError", <<>>)

\* C5: check() returns a verdict list and a record list of the same length,
\* one entry per strategy in order; by default that is the single entry of
\* check_by_error_3; a record's result is PASS exactly when its verdict is
\* true, FAIL otherwise; description and result come first, then the
\* strategy's own fields.
C5_ParallelResults ==
    (op.fn = "check" /\ ret.kind = "return") =>
        LET own == check_by_error_3(data, value)
        IN  /\ Len(ret.results) = 1
            /\ Len(ret.info_all) = 1
            /\ ret.results[1] = own.verdict
            /\ Get(ret.info_all[1], "method") = "check_by_error_3"
            /\ ret.info_all[1][1] = <<"description", op.description>>
            /\ ret.info_all[1][2][1] = "result"
            /\ ret.info_all[1][2][2] = "PASS" <=> ret.results[1]
            /\ ret.info_all[1][2][2] = "FAIL" <=> ~ret.results[1]
            /\ SubSeq(ret.info_all[1], 3, Len(ret.info_all[1])) = own.info

\* check() returned a FAIL verdict and record
C5_Witness ==
    /\ op.fn = "check" /\ ret.kind = "return"
    /\ ret.results = <<FALSE>>
    /\ Get(ret.info_all[1], "result") = "FAIL"

\* the interval of r2 contains the interval of r1, and r2 passes what r1 passes
Widens(r1, r2) ==
    /\ r2.kind = "return"
    /\ RealLeq(Lower(r2), Lower(r1))
    /\ RealLeq(Upper(r1), Upper(r2))
    /\ r1.verdict => r2.verdict

\* the mean of the whole sample lies within the extremes of the trimmed sample
MeanWithinTrimmed(d, trim) ==
    LET t == trimboth(d, trim).a
    IN  Len(d) * Min(t) <= Sum(d) /\ Sum(d) <= Len(d) * Max(t)

\* C6: in each boost-taking family, for boosts 0 < b1 < b2 on the same sample,
\* the lower bound at b2 is <= the lower bound at b1 and the upper bound at b2
\* is >= the upper bound at b1; so what passes check_by_error_1 passes
\* check_by_error_2 and _3, what passes check_by_stdev passes check_by_stdev_2
\* and what passes check_by_min_max_7_1 passes check_by_min_max_7_2.
C6_BoostWidens ==
    /\ (op.fn = "_check_by_error" /\ op.boost > 0 /\ ret.kind = "return") =>
          \A b2 \in Boosts : b2 > op.boost =>
              Widens(ret, _check_by_error(data, value, b2, "caller"))
    /\ (op.fn = "_check_by_stdev" /\ op.boost > 0 /\ op.trim < 50 /\ ret.kind = "return") =>
          \A b2 \in Boosts : b2 > op.boost =>
              Widens(ret, _check_by_stdev(data, value, op.trim, b2, "caller"))
    /\ (op.fn = "_check_by_min_max" /\ op.boost > 0 /\ op.trim < 50 /\ ret.kind = "return") =>
          \A b2 \in Boosts : b2 > op.boost =>
              Widens(ret, _check_by_min_max(data, value, op.trim, b2, "caller"))
    /\ (op.fn = "check_by_error_1" /\ ret.kind = "return") =>
          /\ Widens(ret, check_by_error_2(data, value))
          /\ Widens(check_by_error_2(data, value), check_by_error_3(data, value))
    /\ (op.fn = "check_by_stdev" /\ ret.kind = "return") =>
          Widens(ret, check_by_stdev_2(data, value))
    /\ (op.fn = "check_by_min_max_7_1" /\ ret.kind = "return") =>
          Widens(ret, check_by_min_max_7_2(data, value))

\* C6 outside the trimmed min/max family, and inside it where the mean of the
\* whole sample lies within the extremes of the trimmed sample: there the code
\* does what C6 says
C6_BoostWidensElsewhere ==
    /\ (op.fn = "_check_by_error" /\ op.boost > 0 /\ ret.kind = "return") =>
          \A b2 \in Boosts : b2 > op.boost =>
              Widens(ret, _check_by_error(data, value, b2, "caller"))
    /\ (op.fn = "_check_by_stdev" /\ op.boost > 0 /\ op.trim < 50 /\ ret.kind = "return") =>
          \A b2 \in Boosts : b2 > op.boost =>
              Widens(ret, _check_by_stdev(data, value, op.trim, b2, "caller"))
    /\ (op.fn = "_check_by_min_max" /\ op.boost > 0 /\ op.trim < 50 /\ ret.kind = "return"
          /\ MeanWithinTrimmed(data, op.trim)) =>
          \A b2 \in Boosts : b2 > op.boost =>
              Widens(ret, _check_by_min_max(data, value, op.trim, b2, "caller"))
    /\ (op.fn = "check_by_error_1" /\ ret.kind = "return") =>
          /\ Widens(ret, check_by_error_2(data, value))
          /\ Widens(check_by_error_2(data, value), check_by_error_3(data, value))
    /\ (op.fn = "check_by_stdev" /\ ret.kind = "return") =>
          Widens(ret, check_by_stdev_2(data, value))
    /\ (op.fn = "check_by_min_max_7_1" /\ ret.kind = "return"
          /\ MeanWithinTrimmed(data, 7)) =>
          Widens(ret, check_by_min_max_7_2(data, value))

\* the call was a family called with a trim fraction >= 0.5, a boost <= 0 or
\* a percentage <= 0
InvalidConfiguration ==
    \/ op.fn \in {"_check_by_stdev", "_check_by_min_max"} /\ (op.trim >= 50 \/ op.boost <= 0)
    \/ op.fn = "_check_by_error" /\ op.boost <= 0
    \/ op.fn = "_check_by_perc" /\ op.perc <= 0

\* C7 as stated: a family called with an invalid configuration raises before
\* it has computed anything and returns no verdict and no record.
C7_InvalidConfigurationRejected_AsStated ==
    InvalidConfiguration => (ret.kind = "raise" /\ ret.computed = <<>>)

\* C7 amended: the families do not validate their configuration.  A boost <= 0
\* or a percentage <= 0 is never rejected, and a trim fraction >= 0.5 only by
\* scipy's "Proportion too big" ValueError, raised when the cut
\* int(trim * n) leaves nothing of a non-empty sample (in _check_by_min_max
\* after the mean was computed; in _check_by_stdev after the trimmed mean was
\* computed unless the cuts overlap).  In every other case the call ends as
\* with a valid configuration: StatisticsError for too little data, a verdict
\* and a record otherwise.
C7_InvalidConfigurationNotValidated ==
    (InvalidConfiguration /\ value # None) =>
        LET n == Len(data)
            lc == IF op.fn \in {"_check_by_stdev", "_check_by_min_max"}
                  THEN lowercut(n, op.trim) ELSE 0
            uc == n - lc
        IN  CASE op.fn \in {"_check_by_error", "_check_by_perc"} ->
                   IF n = 0 THEN ret = Raise("StatisticsError", <<>>)
                   ELSE ret.kind = "return"
              [] op.fn = "_check_by_min_max" ->
                   IF n = 0 THEN ret = Raise("StatisticsError", <<>>)
                   ELSE IF lc >= uc THEN ret = Raise("ValueError", <<"mean">>)
                   ELSE ret.kind = "return"
              [] op.fn = "_check_by_stdev" ->
                   IF n > 0 /\ lc > uc THEN ret = Raise("ValueError", <<>>)
                   ELSE IF n > 0 /\ lc = uc THEN ret = Raise("ValueError", <<"mean">>)
                   ELSE IF uc - lc < 2 THEN ret = Raise("StatisticsError", <<"mean">>)
                   ELSE ret.kind = "return"

\* a family called with percentage <= 0 returned a verdict and a record
C7_Witness ==
    /\ op.fn = "_check_by_perc" /\ op.perc <= 0
    /\ ret.kind = "return"
    /\ Has(ret.info, "lower_boundary")

\* the sample sorted, less k elements at each end
Trimmed(d, k) == SubSeq(Sorted(d), k + 1, Len(d) - k)

\* C8: the trimmed min/max strategy records the mean of the whole sample as
\* 'data mean' and centres on it, takes its extremes from the sorted sample
\* less floor(trim * n) elements at each end (trim * n the product of floats), and has
\* lower = centre - (centre - min) * boost, upper = centre + (max - centre) * boost;
\* at trim 0.07 nothing is removed from a sample of fewer than 15 elements.
C8_MinMaxCentreUntrimmed ==
    (op.fn \in MinMaxNamed \cup {"_check_by_min_max"} /\ ret.kind = "return") =>
        LET n == Len(data)
            S == Sum(data)
            trim == IF op.fn \in MinMaxNamed THEN 7 ELSE op.trim
            boost == CASE op.fn = "check_by_min_max_7_1" -> 1
                       [] op.fn = "check_by_min_max_7_2" -> 2
                       [] OTHER -> op.boost
            t == Trimmed(data, FTrunc(FMulInt(FromFrac(trim, 100), n)))
            mn == SetMin(Range(t))
            mx == SetMax(Range(t))
            centre == FromFrac(S, n)
        IN  /\ Get(ret.info, "data mean") = centre
            /\ Get(ret.info, "data len") = n
            /\ Lower(ret).k = 0 /\ Upper(ret).k = 0
            /\ Lower(ret).x = FSub(centre, FMulInt(FSub(centre, FInt(mn)), boost))
            /\ Upper(ret).x = FAdd(centre, FMulInt(FSub(FInt(mx), centre), boost))
            /\ RatEq(Ideal(Lower(ret).x), Rat(S - (S - n * mn) * boost, n))
            /\ RatEq(Ideal(Upper(ret).x), Rat(S + (n * mx - S) * boost, n))
            /\ (trim = 7 /\ n < 15) => (mn = SetMin(Range(data)) /\ mx = SetMax(Range(data)))

\* check_by_min_max_7_2 returned on a sample whose trimming removed both
\* extremes and moved the mean
C8_Witness ==
    /\ op.fn = "check_by_min_max_7_2" /\ ret.kind = "return"
    /\ Len(data) >= 15
    /\ SetMin(Range(Trimmed(data, 1))) # SetMin(Range(data))
    /\ SetMax(Range(Trimmed(data, 1))) # SetMax(Range(data))
    /\ mean(Trimmed(data, 1)) # mean(data)

-----------------------------------------------------------------------------
(* Properties of pass_or_fail.main, under SpecMain *)

HistoricalNotSupported == "Not supported data source type for historical data"

\* C9: every line main prints says PASS exactly when check_by_stdev's verdict
\* for that variable's history and current value is true, FAIL exactly when
\* it is false.
C9_PrintedLineIsVerdict ==
    \A i \in 1..Len(out) :
        LET r == check_by_stdev(historySource[out[i].var], currentSource[out[i].var])
        IN  /\ out[i].text = "PASS" <=> r.verdict
            /\ out[i].text = "FAIL" <=> ~r.verdict

\* C10: main raises the historical-data exception only for a history type
\* that is neither csv nor elasticsearch; with history type csv the run goes
\* on to the current value and the checks.
C10_CsvHistorySupported ==
    mainRet.kind # "none" =>
        /\ (mainRet.kind = "raise" /\ mainRet.exc = HistoricalNotSupported)
              => args.history_type \notin {"csv", "elasticsearch"}
        /\ (args.history_type = "csv" /\ args.current_type = "status_data")
              => (mainRet.kind = "return" \/ mainRet.exc = "StatisticsError")

====
